---- MODULE Spec2Model ----
(***************************************************************************)
(* Model of joystick.py: the JoystickEvent record decoder, the Joystick    *)
(* handler table (bind) and the polling loop (process_events).             *)
(***************************************************************************)
EXTENDS Integers, Sequences, FiniteSets, TLC

(* ---------------- bounds of the model ---------------- *)
MaxBinds == 2
MaxRecords == 2

(* ---------------- constants of joystick.py ---------------- *)
JS_EVENT_BUTTON == 1
JS_EVENT_AXIS == 2
JS_EVENT_INIT == 128
JS_BUTTON_RELEASE == 0
JS_BUTTON_PRESS == 1

DIR_ARROW_UP == "U"
DIR_ARROW_RIGHT == "R"
DIR_ARROW_DOWN == "D"
DIR_ARROW_LEFT == "L"
\* the value of a function that falls off its end without a return
NoDirection == "None"

KM_ML_TRIANGLE == 0
KM_ML_R2 == 7
KM_ML_ARROW_AXIS_X == 0
KM_ML_ARROW_AXIS_Y == 1
KM_ML_LEFT_STICK_AXIS_X == 0
KM_ML_LEFT_STICK_AXIS_Y == 1
KM_ML_RIGHT_STICK_AXIS_X == 2
KM_ML_RIGHT_STICK_AXIS_Y == 3
KM_ML_ARROWA_AXIS_X == 4
KM_ML_ARROWA_AXIS_Y == 5

ANY == 0
BUTTON_PRESS == 1
BUTTON_RELEASE == 2
ARROW_PRESS == 3
ARROW_RELEASE == 4

\* the keys of Joystick.function_map
Categories == {ANY, BUTTON_PRESS, BUTTON_RELEASE, ARROW_PRESS, ARROW_RELEASE}
\* key = None in process_events
NoKey == -1

(* ---------------- inputs drawn by the actions ---------------- *)
Handlers == {"h1", "h2"}
\* event_type arguments tried on bind: the five categories and one outsider
BindCategories == Categories \cup {5}
\* operation arguments tried on bind: None, '+', '-' and one outsider
BindOperations == {"None", "+", "-", "x"}
\* Joystick(timeout=...): poll, finite wait, blocking
Timeouts == {"0", "0.1", "None"}
\* sys.byteorder of the platform
ByteOrders == {"little", "big"}

VARIABLES
    byteorder,     \* sys.byteorder
    timeout,       \* Joystick.timeout
    function_map,  \* Joystick.function_map: category -> list of handlers
    pc,            \* position of the caller inside process_events, or "idle"
    raw,           \* the bytes handed to JoystickEvent(...) in the most recent call
    event,         \* the JoystickEvent constructed in the most recent call
    key,           \* local key of process_events
    idx,           \* position of the running for-loop in its list (1-based)
    calls,         \* handler calls made for the event at hand: <<category, func>>
    iterList,      \* the list object the running for-loop iterates
    iterLive,      \* that object is still the list function_map holds for its key
    kernelq,       \* complete records waiting in the descriptor
    buffered,      \* complete records held by the BufferedReader of open(path, 'rb')
    tail,          \* bytes of an incomplete record before end of input
    eof,           \* the descriptor is at end of input
    delivered,     \* records the device has delivered so far
    nbind,         \* bind calls made so far
    lastCall,      \* the most recent call of the API and its arguments
    err            \* exception raised by the most recent call, or "none"

vars == <<byteorder, timeout, function_map, pc, raw, event, key, idx, calls,
          iterList, iterLive, kernelq, buffered, tail, eof, delivered, nbind, lastCall, err>>

devVars == <<kernelq, buffered, tail, eof, delivered>>
loopVars == <<pc, raw, event, key, idx, calls, iterList, iterLive>>

(* ---------------- JoystickEvent ---------------- *)
\* int.from_bytes(b, sys.byteorder, signed=False) for two bytes
UnsignedFromBytes(b, order) ==
    IF order = "little" THEN b[1] + 256 * b[2] ELSE 256 * b[1] + b[2]

\* the conversion with signed=True left out
SignedFromBytesNoSign(b, order) == UnsignedFromBytes(b, order)

\* int.from_bytes(b, sys.byteorder, signed=True) for two bytes
SignedFromBytes(b, order) ==
    LET u == UnsignedFromBytes(b, order)
    IN  IF u >= 32768 THEN u - 65536 ELSE u

x_axis == {KM_ML_ARROW_AXIS_X, KM_ML_LEFT_STICK_AXIS_X,
           KM_ML_RIGHT_STICK_AXIS_X, KM_ML_ARROWA_AXIS_X}

\* the Y list without the analog-arrow index
y_axis_short == {KM_ML_ARROW_AXIS_Y, KM_ML_LEFT_STICK_AXIS_Y,
                 KM_ML_RIGHT_STICK_AXIS_Y}

y_axis == {KM_ML_ARROW_AXIS_Y, KM_ML_LEFT_STICK_AXIS_Y,
           KM_ML_RIGHT_STICK_AXIS_Y, KM_ML_ARROWA_AXIS_Y}

\* a direction computed from number and value alone, whatever the type
get_direction_untyped(type, number, value) ==
    IF (number \in x_axis) /\ (value < 0) THEN DIR_ARROW_LEFT
    ELSE IF (number \in x_axis) /\ (value > 0) THEN DIR_ARROW_RIGHT
    ELSE IF (number \in y_axis) /\ (value < 0) THEN DIR_ARROW_UP
    ELSE IF (number \in y_axis) /\ (value > 0) THEN DIR_ARROW_DOWN
    ELSE NoDirection

get_direction(type, number, value) ==
    IF type = JS_EVENT_AXIS
    THEN IF (number \in x_axis) /\ (value < 0) THEN DIR_ARROW_LEFT
         ELSE IF (number \in x_axis) /\ (value > 0) THEN DIR_ARROW_RIGHT
         ELSE IF (number \in y_axis) /\ (value < 0) THEN DIR_ARROW_UP
         ELSE IF (number \in y_axis) /\ (value > 0) THEN DIR_ARROW_DOWN
         ELSE NoDirection
    ELSE NoDirection

\* a size check that lets longer buffers through
AtLeastValidSize(raw_8_bytes_data) == Len(raw_8_bytes_data) >= 8

\* the assert of JoystickEvent.__init__
ValidSize(raw_8_bytes_data) == Len(raw_8_bytes_data) = 8

\* the fields set by JoystickEvent.__init__ on a buffer that passed the assert
JoystickEvent(raw_8_bytes_data, order) ==
    LET value == SignedFromBytes(SubSeq(raw_8_bytes_data, 5, 6), order)
        type == raw_8_bytes_data[7]
        number == raw_8_bytes_data[8]
    IN  [time |-> SubSeq(raw_8_bytes_data, 1, 4),
         value |-> value,
         type |-> type,
         number |-> number,
         direction |-> get_direction(type, number, value)]

\* no JoystickEvent constructed yet
NoEvent == [time |-> <<>>, value |-> 0, type |-> -1, number |-> -1,
            direction |-> NoDirection]

NoCall == [op |-> "none", event_type |-> -1, func |-> "none", operation |-> "none"]

(* ---------------- Joystick.__init__ ---------------- *)
\* the host of the polling program is little-endian; InitDecode covers both
Init ==
    /\ byteorder = "little"
    /\ timeout \in Timeouts
    /\ function_map = [c \in Categories |-> <<>>]
    /\ pc = "idle"
    /\ raw = <<>>
    /\ event = NoEvent
    /\ key = NoKey
    /\ idx = 1
    /\ calls = <<>>
    /\ iterList = <<>>
    /\ iterLive = TRUE
    /\ kernelq = 0
    /\ buffered = 0
    /\ tail = <<>>
    /\ eof = FALSE
    /\ delivered = 0
    /\ nbind = 0
    /\ lastCall = NoCall
    /\ err = "none"

(* ---------------- Joystick.bind ---------------- *)
\* insertion at the front instead of the end
ListPrepend(list, func) == <<func>> \o list

\* list.append
ListAppend(list, func) == Append(list, func)

\* position of the first occurrence of func in list, 0 when absent
FirstIndex(list, func) ==
    IF \E i \in 1..Len(list) : list[i] = func
    THEN CHOOSE i \in 1..Len(list) :
            /\ list[i] = func
            /\ \A j \in 1..(i - 1) : list[j] # func
    ELSE 0

\* list.remove: drops the first occurrence
ListRemove(list, func) ==
    LET i == FirstIndex(list, func)
    IN  SubSeq(list, 1, i - 1) \o SubSeq(list, i + 1, Len(list))

\* REPLACE that rebuilds the whole table
ClearAllIfReplace(map, event_type, operation) ==
    IF operation = "None" THEN [c \in Categories |-> <<>>] ELSE map

\* "if operation is None: self.function_map[event_type] = list()"
ClearIfReplace(map, event_type, operation) ==
    IF operation = "None" THEN [map EXCEPT ![event_type] = <<>>] ELSE map

\* list_func starts as the bound method append; line 151 compares that
\* method object, not operation, with '-'
SelectListFunc(operation) ==
    LET list_func == "append"
    IN  IF list_func = "-" THEN "remove" ELSE list_func

\* the table after a bind call whose asserts passed
BindResult(map, event_type, func, operation) ==
    LET m == ClearIfReplace(map, event_type, operation)
        list_func == SelectListFunc(operation)
    IN  IF list_func = "remove"
        THEN [m EXCEPT ![event_type] = ListRemove(@, func)]
        ELSE [m EXCEPT ![event_type] = ListAppend(@, func)]

\* list.remove(x) raises ValueError when x is absent
BindRaisesValueError(map, event_type, func, operation) ==
    /\ SelectListFunc(operation) = "remove"
    /\ FirstIndex(ClearIfReplace(map, event_type, operation)[event_type], func) = 0

\* bind without its first assert
AnyOperation(operation) == TRUE

\* "assert operation in (None, '+', '-')"
ValidOperation(operation) == operation \in {"None", "+", "-"}

\* "assert event_type in (Joystick.ANY, ...)"
ValidEventType(event_type) == event_type \in Categories

Bind(event_type, func, operation) ==
    /\ pc = "idle"
    /\ nbind < MaxBinds
    /\ nbind' = nbind + 1
    /\ lastCall' = [op |-> "bind", event_type |-> event_type, func |-> func,
                    operation |-> operation]
    /\ IF ~ValidOperation(operation)
       THEN /\ err' = "AssertionError: Invalid operation"
            /\ UNCHANGED function_map
       ELSE IF ~ValidEventType(event_type)
       THEN /\ err' = "AssertionError"
            /\ UNCHANGED function_map
       ELSE IF BindRaisesValueError(function_map, event_type, func, operation)
       THEN /\ err' = "ValueError"
            /\ function_map' = ClearIfReplace(function_map, event_type, operation)
       ELSE /\ err' = "none"
            /\ function_map' = BindResult(function_map, event_type, func, operation)
    /\ raw' = <<>>
    /\ event' = NoEvent
    /\ calls' = <<>>
    /\ UNCHANGED <<pc, key, idx, iterList, iterLive>>
    /\ UNCHANGED <<byteorder, timeout>>
    /\ UNCHANGED devVars

(* ---------------- the device behind device_file ---------------- *)
\* <<value, type, number>> of the records the device delivers: button and axis
\* events, initial-state events and a type with both low bits
DeviceValues == {0, 1, -5}
DeviceEvents ==
    (DeviceValues \X {JS_EVENT_BUTTON} \X {KM_ML_TRIANGLE})
    \cup (DeviceValues \X {JS_EVENT_AXIS} \X {KM_ML_LEFT_STICK_AXIS_X, KM_ML_R2})
    \cup {<<1, JS_EVENT_INIT + JS_EVENT_BUTTON, KM_ML_TRIANGLE>>,
          <<0, JS_EVENT_INIT + JS_EVENT_AXIS, KM_ML_LEFT_STICK_AXIS_X>>,
          <<-5, JS_EVENT_INIT + JS_EVENT_AXIS, KM_ML_LEFT_STICK_AXIS_X>>,
          <<1, JS_EVENT_BUTTON + JS_EVENT_AXIS, KM_ML_TRIANGLE>>}
DeviceTime == <<18, 52, 86, 120>>

\* the two bytes of a 16-bit value as the host lays them out (struct js_event)
ValueBytes(v, order) ==
    LET u == IF v < 0 THEN v + 65536 ELSE v
    IN  IF order = "little" THEN <<u % 256, u \div 256>>
        ELSE <<u \div 256, u % 256>>

\* the 8-byte records read from the device
Records(order) ==
    { DeviceTime \o ValueBytes(e[1], order) \o <<e[2], e[3]>> : e \in DeviceEvents }

\* what an incomplete record can leave before end of input
Tails == {<<>>, <<18, 52, 86>>}

\* a select that reports the descriptor whatever its state
ReadableAlways == TRUE

\* select.select([fd], [], [], timeout) finds the descriptor readable; the
\* bytes already moved into the BufferedReader are invisible to it
Readable == kernelq > 0 \/ eof

\* the device delivers one more record
Deliver ==
    /\ delivered < MaxRecords
    /\ ~eof
    /\ ~(pc = "select" /\ timeout = "0")
    /\ delivered' = delivered + 1
    /\ kernelq' = kernelq + 1
    /\ UNCHANGED <<buffered, tail, eof>>
    /\ UNCHANGED <<byteorder, timeout, function_map, nbind, lastCall, err>>
    /\ UNCHANGED loopVars

\* the input ends, possibly in the middle of a record
EndOfInput(t) ==
    /\ ~eof
    /\ ~(pc = "select" /\ timeout = "0")
    /\ eof' = TRUE
    /\ tail' = t
    /\ UNCHANGED <<kernelq, buffered, delivered>>
    /\ UNCHANGED <<byteorder, timeout, function_map, nbind, lastCall, err>>
    /\ UNCHANGED loopVars

(* ---------------- JoystickEvent(...) called directly ---------------- *)
\* the exception JoystickEvent.__init__ ends with on this buffer, or "none"
InitOutcome(raw_8_bytes_data) ==
    IF ~ValidSize(raw_8_bytes_data) THEN "AssertionError: Invalid size of data"
    ELSE IF Len(raw_8_bytes_data) < 8 THEN "TypeError"
    ELSE "none"

NewJoystickEvent(buf) ==
    /\ pc = "idle"
    /\ lastCall' = [op |-> "JoystickEvent", event_type |-> -1, func |-> "none",
                    operation |-> "none"]
    /\ raw' = buf
    /\ err' = InitOutcome(buf)
    /\ event' = IF InitOutcome(buf) = "none" THEN JoystickEvent(buf, byteorder)
                ELSE NoEvent
    /\ calls' = <<>>
    /\ UNCHANGED <<pc, key, idx, iterList, iterLive>>
    /\ UNCHANGED <<byteorder, timeout, function_map, nbind>>
    /\ UNCHANGED devVars

(* ---------------- Joystick.process_events ---------------- *)
\* the call, up to the entry of the first select
ProcessEvents ==
    /\ pc = "idle"
    /\ pc' = "select"
    /\ lastCall' = [op |-> "process_events", event_type |-> -1, func |-> "none",
                    operation |-> "none"]
    /\ err' = "none"
    /\ raw' = <<>>
    /\ event' = NoEvent
    /\ key' = NoKey
    /\ idx' = 1
    /\ calls' = <<>>
    /\ UNCHANGED <<iterList, iterLive>>
    /\ UNCHANGED <<byteorder, timeout, function_map, nbind>>
    /\ UNCHANGED devVars

\* select returns the descriptor: "while read" is entered or continued; the
\* locals of the last iteration are dead from here on
SelectReadable ==
    /\ pc = "select"
    /\ Readable
    /\ pc' = "read"
    /\ raw' = <<>>
    /\ event' = NoEvent
    /\ key' = NoKey
    /\ idx' = 1
    /\ calls' = <<>>
    /\ UNCHANGED <<iterList, iterLive>>
    /\ UNCHANGED <<byteorder, timeout, function_map, nbind, lastCall, err>>
    /\ UNCHANGED devVars

\* select returns nothing after its timeout: the loop and the call end
SelectTimeout ==
    /\ pc = "select"
    /\ ~Readable
    /\ timeout # "None"
    /\ pc' = "idle"
    /\ raw' = <<>>
    /\ event' = NoEvent
    /\ key' = NoKey
    /\ idx' = 1
    /\ calls' = <<>>
    /\ UNCHANGED <<iterList, iterLive>>
    /\ UNCHANGED <<byteorder, timeout, function_map, nbind, lastCall, err>>
    /\ UNCHANGED devVars

\* a list looked up under the wrong key
AnyHandlersWrongKey(map) == map[BUTTON_PRESS]

\* self.function_map.get(Joystick.ANY)
AnyHandlers(map) == map[ANY]

\* device_file.read(8) returns a complete record, which is decoded; the ANY
\* loop takes its iterator on the list function_map holds at that moment
ReadRecord(rec) ==
    /\ pc = "read"
    /\ buffered > 0 \/ kernelq > 0
    /\ IF buffered > 0
       THEN /\ buffered' = buffered - 1
            /\ UNCHANGED kernelq
       ELSE /\ buffered' = kernelq - 1
            /\ kernelq' = 0
    /\ raw' = rec
    /\ IF InitOutcome(rec) = "none"
       THEN /\ event' = JoystickEvent(rec, byteorder)
            /\ pc' = "any"
            /\ iterList' = AnyHandlers(function_map)
            /\ UNCHANGED err
       ELSE /\ event' = NoEvent
            /\ pc' = "idle"
            /\ iterList' = <<>>
            /\ err' = InitOutcome(rec)
    /\ iterLive' = TRUE
    /\ key' = NoKey
    /\ idx' = 1
    /\ calls' = <<>>
    /\ UNCHANGED <<tail, eof, delivered>>
    /\ UNCHANGED <<byteorder, timeout, function_map, nbind, lastCall>>

\* device_file.read(8) at end of input returns what is left, fewer than 8 bytes
ReadShort ==
    /\ pc = "read"
    /\ buffered = 0
    /\ kernelq = 0
    /\ eof
    /\ raw' = tail
    /\ tail' = <<>>
    /\ IF InitOutcome(tail) = "none"
       THEN /\ event' = JoystickEvent(tail, byteorder)
            /\ pc' = "any"
            /\ iterList' = AnyHandlers(function_map)
            /\ UNCHANGED err
       ELSE /\ event' = NoEvent
            /\ pc' = "idle"
            /\ iterList' = <<>>
            /\ err' = InitOutcome(tail)
    /\ iterLive' = TRUE
    /\ key' = NoKey
    /\ idx' = 1
    /\ calls' = <<>>
    /\ UNCHANGED <<kernelq, buffered, eof, delivered>>
    /\ UNCHANGED <<byteorder, timeout, function_map, nbind, lastCall>>

\* an ANY loop that walks its list from the end
CallAnyReversed ==
    /\ pc = "any"
    /\ idx <= Len(iterList)
    /\ calls' = Append(calls, <<ANY, iterList[Len(iterList) + 1 - idx]>>)
    /\ idx' = idx + 1
    /\ UNCHANGED <<pc, raw, event, key, iterList, iterLive>>
    /\ UNCHANGED <<byteorder, timeout, function_map, nbind, lastCall, err>>
    /\ UNCHANGED devVars

\* one iteration of "for func in self.function_map.get(Joystick.ANY)"
CallAny ==
    /\ pc = "any"
    /\ idx <= Len(iterList)
    /\ calls' = Append(calls, <<ANY, iterList[idx]>>)
    /\ idx' = idx + 1
    /\ UNCHANGED <<pc, raw, event, key, iterList, iterLive>>
    /\ UNCHANGED <<byteorder, timeout, function_map, nbind, lastCall, err>>
    /\ UNCHANGED devVars

\* classification with the two button keys exchanged
ClassifyKeyButtonsSwapped(e) ==
    IF e.type = JS_EVENT_BUTTON
    THEN IF e.value = JS_BUTTON_RELEASE THEN BUTTON_PRESS
         ELSE IF e.value = JS_BUTTON_PRESS THEN BUTTON_RELEASE
         ELSE NoKey
    ELSE IF e.type = JS_EVENT_AXIS
    THEN IF e.value # 0 THEN ARROW_PRESS ELSE ARROW_RELEASE
    ELSE NoKey

\* classification that takes only positive axis values as a press
ClassifyKeyPositiveAxis(e) ==
    IF e.type = JS_EVENT_BUTTON
    THEN IF e.value = JS_BUTTON_RELEASE THEN BUTTON_RELEASE
         ELSE IF e.value = JS_BUTTON_PRESS THEN BUTTON_PRESS
         ELSE NoKey
    ELSE IF e.type = JS_EVENT_AXIS
    THEN IF e.value > 0 THEN ARROW_PRESS ELSE ARROW_RELEASE
    ELSE NoKey

\* the key chosen by the if/elif on event.type, NoKey when none is
ClassifyKey(e) ==
    IF e.type = JS_EVENT_BUTTON
    THEN IF e.value = JS_BUTTON_RELEASE THEN BUTTON_RELEASE
         ELSE IF e.value = JS_BUTTON_PRESS THEN BUTTON_PRESS
         ELSE NoKey
    ELSE IF e.type = JS_EVENT_AXIS
    THEN IF e.value # 0 THEN ARROW_PRESS ELSE ARROW_RELEASE
    ELSE NoKey

\* "if key:" and the entry of the category loop
HasCategoryLoop(k) == k # NoKey /\ k # 0

\* a classification whose button tests are two independent ifs: a pressed
\* button first runs the release handlers as well
ClassifyBothButtonLists ==
    /\ pc = "any"
    /\ idx > Len(iterList)
    /\ key' = ClassifyKey(event)
    /\ pc' = IF HasCategoryLoop(ClassifyKey(event)) THEN "key" ELSE "select"
    /\ iterList' = IF HasCategoryLoop(ClassifyKey(event))
                   THEN function_map[ClassifyKey(event)] ELSE <<>>
    /\ iterLive' = TRUE
    /\ idx' = 1
    /\ calls' = IF ClassifyKey(event) = BUTTON_PRESS
                THEN calls \o [i \in 1..Len(function_map[BUTTON_RELEASE]) |->
                                 <<BUTTON_RELEASE, function_map[BUTTON_RELEASE][i]>>]
                ELSE calls
    /\ UNCHANGED <<raw, event>>
    /\ UNCHANGED <<byteorder, timeout, function_map, nbind, lastCall, err>>
    /\ UNCHANGED devVars

\* the ANY loop is over: classify the event
Classify ==
    /\ pc = "any"
    /\ idx > Len(iterList)
    /\ key' = ClassifyKey(event)
    /\ pc' = IF HasCategoryLoop(ClassifyKey(event)) THEN "key" ELSE "select"
    /\ iterList' = IF HasCategoryLoop(ClassifyKey(event))
                   THEN function_map[ClassifyKey(event)] ELSE <<>>
    /\ iterLive' = TRUE
    /\ idx' = 1
    /\ UNCHANGED <<raw, event, calls>>
    /\ UNCHANGED <<byteorder, timeout, function_map, nbind, lastCall, err>>
    /\ UNCHANGED devVars

\* a category loop that takes each handler out of the table as it calls it
CallKeyConsuming ==
    /\ pc = "key"
    /\ idx <= Len(iterList)
    /\ calls' = Append(calls, <<key, iterList[idx]>>)
    /\ idx' = idx + 1
    /\ function_map' = [function_map EXCEPT ![key] = Tail(function_map[key])]
    /\ UNCHANGED <<pc, raw, event, key, iterList, iterLive>>
    /\ UNCHANGED <<byteorder, timeout, nbind, lastCall, err>>
    /\ UNCHANGED devVars

\* one iteration of "for func in self.function_map[key]"
CallKey ==
    /\ pc = "key"
    /\ idx <= Len(iterList)
    /\ calls' = Append(calls, <<key, iterList[idx]>>)
    /\ idx' = idx + 1
    /\ UNCHANGED <<pc, raw, event, key, iterList, iterLive>>
    /\ UNCHANGED <<byteorder, timeout, function_map, nbind, lastCall, err>>
    /\ UNCHANGED devVars

\* the category loop is over: on to the select at the end of the while body
EndKey ==
    /\ pc = "key"
    /\ idx > Len(iterList)
    /\ pc' = "select"
    /\ iterList' = <<>>
    /\ iterLive' = TRUE
    /\ UNCHANGED <<raw, event, key, idx, calls>>
    /\ UNCHANGED <<byteorder, timeout, function_map, nbind, lastCall, err>>
    /\ UNCHANGED devVars

\* buffers handed to JoystickEvent(...) directly by the program
DirectBuffers == {<<>>, <<0, 0, 0, 0, 251, 255, 2, 0>>,
                  <<0, 0, 0, 0, 251, 255, 2, 0, 9>>}

Next ==
    \/ \E c \in BindCategories, h \in Handlers, o \in BindOperations : Bind(c, h, o)
    \/ \E buf \in DirectBuffers : NewJoystickEvent(buf)
    \/ Deliver
    \/ \E t \in Tails : EndOfInput(t)
    \/ ProcessEvents
    \/ SelectReadable
    \/ SelectTimeout
    \/ \E rec \in Records(byteorder) : ReadRecord(rec)
    \/ ReadShort
    \/ CallAny
    \/ Classify
    \/ CallKey
    \/ EndKey

Spec == Init /\ [][Next]_vars

(* ---------------- handlers that raise or call bind ---------------- *)
\* the category whose list the running for-loop iterates
LoopCategory == IF pc = "any" THEN ANY ELSE key

\* "func(event)" raises: neither loop nor process_events has a try, so the
\* call ends with the handler's exception
HandlerRaisesCaught ==
    /\ pc \in {"any", "key"}
    /\ idx <= Len(iterList)
    /\ calls' = Append(calls, <<LoopCategory, iterList[idx]>>)
    /\ err' = "HandlerError"
    /\ idx' = idx + 1
    /\ UNCHANGED <<pc, raw, event, key, iterList, iterLive>>
    /\ UNCHANGED <<byteorder, timeout, function_map, nbind, lastCall>>
    /\ UNCHANGED devVars

HandlerRaises ==
    /\ pc \in {"any", "key"}
    /\ idx <= Len(iterList)
    /\ calls' = Append(calls, <<LoopCategory, iterList[idx]>>)
    /\ err' = "HandlerError"
    /\ pc' = "idle"
    /\ key' = NoKey
    /\ idx' = 1
    /\ iterList' = <<>>
    /\ iterLive' = TRUE
    /\ UNCHANGED <<raw, event>>
    /\ UNCHANGED <<byteorder, timeout, function_map, nbind, lastCall>>
    /\ UNCHANGED devVars

\* the operations a handler passes to bind
HandlerOperations == {"None", "+"}

\* a bind whose REPLACE empties the existing list object instead of
\* assigning a new one
HandlerBindsInPlace(event_type, func, operation) ==
    /\ pc \in {"any", "key"}
    /\ idx <= Len(iterList)
    /\ nbind < MaxBinds
    /\ nbind' = nbind + 1
    /\ lastCall' = [op |-> "bind", event_type |-> event_type, func |-> func,
                    operation |-> operation]
    /\ function_map' = BindResult(function_map, event_type, func, operation)
    /\ calls' = Append(calls, <<LoopCategory, iterList[idx]>>)
    /\ idx' = idx + 1
    /\ IF event_type = LoopCategory /\ iterLive
       THEN iterList' = BindResult(function_map, event_type, func, operation)[event_type]
       ELSE UNCHANGED iterList
    /\ UNCHANGED <<pc, raw, event, key, iterLive, err>>
    /\ UNCHANGED <<byteorder, timeout>>
    /\ UNCHANGED devVars

\* "func(event)" where func calls self.bind(event_type, func, operation) and
\* returns. REPLACE (line 149) puts a new list in the table and the running
\* for-loop keeps the old one; append (lines 150-153) changes the list in
\* the table, which is the one the loop iterates unless it was replaced.
HandlerBinds(event_type, func, operation) ==
    /\ pc \in {"any", "key"}
    /\ idx <= Len(iterList)
    /\ nbind < MaxBinds
    /\ nbind' = nbind + 1
    /\ lastCall' = [op |-> "bind", event_type |-> event_type, func |-> func,
                    operation |-> operation]
    /\ function_map' = BindResult(function_map, event_type, func, operation)
    /\ calls' = Append(calls, <<LoopCategory, iterList[idx]>>)
    /\ idx' = idx + 1
    /\ IF event_type = LoopCategory /\ iterLive
       THEN IF operation = "None"
            THEN /\ iterLive' = FALSE
                 /\ UNCHANGED iterList
            ELSE /\ iterList' = BindResult(function_map, event_type, func,
                                           operation)[event_type]
                 /\ UNCHANGED iterLive
       ELSE UNCHANGED <<iterList, iterLive>>
    /\ UNCHANGED <<pc, raw, event, key, err>>
    /\ UNCHANGED <<byteorder, timeout>>
    /\ UNCHANGED devVars

\* a session opened with a finite timeout and nothing bound yet
InitReentrant ==
    /\ byteorder = "little"
    /\ timeout = "0.1"
    /\ function_map = [c \in Categories |-> <<>>]
    /\ pc = "idle"
    /\ raw = <<>>
    /\ event = NoEvent
    /\ key = NoKey
    /\ idx = 1
    /\ calls = <<>>
    /\ iterList = <<>>
    /\ iterLive = TRUE
    /\ kernelq = 0
    /\ buffered = 0
    /\ tail = <<>>
    /\ eof = FALSE
    /\ delivered = 0
    /\ nbind = 0
    /\ lastCall = NoCall
    /\ err = "none"

NextReentrant ==
    \/ \E c \in Categories, h \in Handlers, o \in HandlerOperations : Bind(c, h, o)
    \/ Deliver
    \/ \E t \in Tails : EndOfInput(t)
    \/ ProcessEvents
    \/ SelectReadable
    \/ SelectTimeout
    \/ \E rec \in Records(byteorder) : ReadRecord(rec)
    \/ ReadShort
    \/ CallAny
    \/ Classify
    \/ CallKey
    \/ EndKey
    \/ HandlerRaises
    \/ \E c \in Categories, h \in Handlers, o \in HandlerOperations :
          HandlerBinds(c, h, o)

SpecReentrant == InitReentrant /\ [][NextReentrant]_vars

\* the steps process_events takes by itself once it is called: the
\* interpreter keeps running the call, the device owes nothing
ProgramStep ==
    \/ SelectReadable
    \/ SelectTimeout
    \/ \E rec \in Records(byteorder) : ReadRecord(rec)
    \/ ReadShort
    \/ CallAny
    \/ Classify
    \/ CallKey
    \/ EndKey

SpecLive == Init /\ [][Next]_vars /\ WF_vars(ProgramStep)

(* ---------------- the decoder alone ---------------- *)
DecodeBytes == {0, 1, 127, 128, 255}
DecodeTimes == {<<0, 0, 0, 0>>, <<18, 52, 86, 120>>}
DecodeTypes == {1, 2, 130, 255}
DecodeNumbers == {0, 1, 2, 3, 4, 5, 6, 255}

\* buffers handed to JoystickEvent(...): 8-byte records and wrong sizes
DecodeInputs ==
    { t \o <<lo, hi, ty, n>> :
        t \in DecodeTimes, lo \in DecodeBytes, hi \in DecodeBytes,
        ty \in DecodeTypes, n \in DecodeNumbers }
    \cup {<<>>, <<255, 255, 2>>, <<0, 0, 0, 0, 255, 255, 2>>,
          <<0, 0, 0, 0, 251, 255, 2, 0, 9>>}

InitDecode ==
    /\ byteorder \in ByteOrders
    /\ timeout = "0.1"
    /\ function_map = [c \in Categories |-> <<>>]
    /\ pc = "idle"
    /\ raw = <<>>
    /\ event = NoEvent
    /\ key = NoKey
    /\ idx = 1
    /\ calls = <<>>
    /\ iterList = <<>>
    /\ iterLive = TRUE
    /\ kernelq = 0
    /\ buffered = 0
    /\ tail = <<>>
    /\ eof = FALSE
    /\ delivered = 0
    /\ nbind = 0
    /\ lastCall = NoCall
    /\ err = "none"

NextDecode == \E buf \in DecodeInputs : NewJoystickEvent(buf)

SpecDecode == InitDecode /\ [][NextDecode]_vars

(* ======================= properties ======================= *)
\* a bind call has just returned or raised
BindStep == nbind' = nbind + 1 /\ lastCall'.op = "bind"

\* the handlers called under category c for the current event, in call order
RECURSIVE FuncsOf(_, _)
FuncsOf(cs, c) ==
    IF cs = <<>> THEN <<>>
    ELSE IF Head(cs)[1] = c THEN <<Head(cs)[2]>> \o FuncsOf(Tail(cs), c)
    ELSE FuncsOf(Tail(cs), c)

\* the categories of the calls made for the current event, in call order
RECURSIVE CatsOf(_)
CatsOf(cs) ==
    IF cs = <<>> THEN <<>> ELSE <<Head(cs)[1]>> \o CatsOf(Tail(cs))

\* both for-loops are over for the record decoded last
DispatchDone == pc = "select" /\ event # NoEvent

\* list with the element at position i taken out
DropAt(list, i) == SubSeq(list, 1, i - 1) \o SubSeq(list, i + 1, Len(list))

\* C1: bind(c, h, '-') on a list of c that holds h leaves the list with one
\* occurrence of h taken out, the other handlers in their order.
C1_RemoveDeletesOne ==
    [][(/\ BindStep
        /\ lastCall'.operation = "-"
        /\ lastCall'.event_type \in Categories
        /\ \E i \in 1..Len(function_map[lastCall'.event_type]) :
               function_map[lastCall'.event_type][i] = lastCall'.func)
       => \E i \in 1..Len(function_map[lastCall'.event_type]) :
               /\ function_map[lastCall'.event_type][i] = lastCall'.func
               /\ function_map'[lastCall'.event_type]
                     = DropAt(function_map[lastCall'.event_type], i)]_vars

\* C2: bind(c, h, '+') puts h at the end of c's list and changes nothing else,
\* and an event matched by c calls the handlers of c's list once each, in the
\* order of the list.
C2_AppendInOrder ==
    [][/\ (/\ BindStep
            /\ lastCall'.operation = "+"
            /\ lastCall'.event_type \in Categories)
           => function_map' =
                [function_map EXCEPT ![lastCall'.event_type] =
                    Append(@, lastCall'.func)]
       /\ DispatchDone'
           => \A c \in Categories :
                 (c = ANY \/ c = key')
                 => FuncsOf(calls', c) = function_map'[c]]_vars

C2_Witness ==
    /\ DispatchDone
    /\ key \in Categories
    /\ function_map[key] = <<"h1", "h2">>
    /\ FuncsOf(calls, key) = <<"h1", "h2">>

\* C3: bind(c, h) with operation None leaves c's list equal to [h] and every
\* other category's list as it was.
C3_ReplaceOnlyThatCategory ==
    [][(/\ BindStep
        /\ lastCall'.operation = "None"
        /\ lastCall'.event_type \in Categories)
       => /\ function_map'[lastCall'.event_type] = <<lastCall'.func>>
          /\ \A d \in Categories \ {lastCall'.event_type} :
                 function_map'[d] = function_map[d]]_vars

C3_Witness ==
    /\ lastCall.op = "bind"
    /\ lastCall.operation = "None"
    /\ lastCall.event_type = ARROW_PRESS
    /\ nbind = 2
    /\ function_map[ARROW_PRESS] = <<"h2">>
    /\ function_map[ANY] = <<"h1">>

\* C4: once the ANY loop is over for a record decoded by process_events, the
\* handlers called under ANY for it are exactly the ANY list, once each,
\* whatever the type, value and number of the event; while the loop runs they
\* are the part of the list already passed.
C4_AnyForEveryEvent ==
    /\ (event # NoEvent /\ pc \in {"key", "select"})
        => FuncsOf(calls, ANY) = function_map[ANY]
    /\ pc = "any"
        => /\ event # NoEvent
           /\ idx - 1 <= Len(function_map[ANY])
           /\ FuncsOf(calls, ANY) = SubSeq(function_map[ANY], 1, idx - 1)

C4_Witness ==
    /\ DispatchDone
    /\ event.type \notin {JS_EVENT_BUTTON, JS_EVENT_AXIS}
    /\ key = NoKey
    /\ function_map[ANY] = <<"h2", "h1">>
    /\ calls = <<<<ANY, "h2">>, <<ANY, "h1">>>>

IsSpecific(c) == c[1] # ANY

\* the calls made for the current event under a category other than ANY
SpecificCalls == SelectSeq(calls, IsSpecific)

\* the calls that deliver an event to every handler of category c
Tagged(c) == [i \in 1..Len(function_map[c]) |-> <<c, function_map[c][i]>>]

\* C5: when dispatch of a BUTTON event (type 0x01) is over, the calls made
\* outside ANY are the BUTTON_RELEASE list for value 0, the BUTTON_PRESS list
\* for value 1 and none for any other value.
C5_ButtonClassification ==
    (DispatchDone /\ event.type = 1)
    => SpecificCalls =
         IF event.value = 0 THEN Tagged(BUTTON_RELEASE)
         ELSE IF event.value = 1 THEN Tagged(BUTTON_PRESS)
         ELSE <<>>

C5_Witness ==
    /\ DispatchDone
    /\ event.type = 1
    /\ event.value = 1
    /\ function_map[BUTTON_PRESS] = <<"h1">>
    /\ function_map[ARROW_PRESS] = <<"h2">>
    /\ calls = <<<<BUTTON_PRESS, "h1">>>>

\* C6: when dispatch of an AXIS event (type 0x02) is over, whatever its
\* number, the calls made outside ANY are the ARROW_PRESS list for a nonzero
\* value and the ARROW_RELEASE list for value 0; on axis 0 a negative value
\* has direction LEFT and value 0 has no direction.
C6_AxisClassification ==
    (DispatchDone /\ event.type = 2)
    => /\ SpecificCalls =
            IF event.value # 0 THEN Tagged(ARROW_PRESS)
            ELSE Tagged(ARROW_RELEASE)
       /\ (event.number = 0 /\ event.value = -5) => event.direction = "L"
       /\ (event.number = 0 /\ event.value = 0) => event.direction = "None"

C6_Witness ==
    /\ DispatchDone
    /\ event.type = 2
    /\ event.number = 0
    /\ event.value = -5
    /\ event.direction = "L"
    /\ function_map[ARROW_PRESS] = <<"h1">>
    /\ function_map[BUTTON_PRESS] = <<"h2">>
    /\ calls = <<<<ARROW_PRESS, "h1">>>>

\* a JoystickEvent(...) call made directly has returned an event
Decoded == lastCall.op = "JoystickEvent" /\ err = "none"

\* the direction the table gives for an axis number and a value
TableDirection(number, value) ==
    IF value = 0 THEN "None"
    ELSE IF number \in {0, 2, 4} THEN (IF value < 0 THEN "L" ELSE "R")
    ELSE IF number \in {1, 3, 5} THEN (IF value < 0 THEN "U" ELSE "D")
    ELSE "None"

\* C7: an AXIS event on one of the named X indices is LEFT for a negative
\* and RIGHT for a positive value, on one of the named Y indices UP for a
\* negative and DOWN for a positive value, and has no direction for value 0
\* or for a number outside both sets.
C7_DirectionTable ==
    (Decoded /\ event.type = 2)
    => /\ event.direction = TableDirection(event.number, event.value)
       /\ {KM_ML_ARROW_AXIS_X, KM_ML_LEFT_STICK_AXIS_X,
            KM_ML_RIGHT_STICK_AXIS_X, KM_ML_ARROWA_AXIS_X} = {0, 2, 4}
       /\ {KM_ML_ARROW_AXIS_Y, KM_ML_LEFT_STICK_AXIS_Y,
            KM_ML_RIGHT_STICK_AXIS_Y, KM_ML_ARROWA_AXIS_Y} = {1, 3, 5}

C7_Witness ==
    /\ Decoded
    /\ event.type = 2
    /\ event.number = KM_ML_ARROWA_AXIS_Y
    /\ event.value > 0
    /\ event.direction = "D"

\* the 16-bit word of bytes 4..5 of the buffer in the host's byte order
Word16 ==
    IF byteorder = "little" THEN raw[5] + 256 * raw[6]
    ELSE 256 * raw[5] + raw[6]

\* C8: the event decoded from an 8-byte record has time equal to bytes
\* 0..3, value equal to the two's-complement reading of the 16-bit word of
\* bytes 4..5 (between -32768 and 32767, FF FF giving -1), type equal to
\* byte 6 and number equal to byte 7.
C8_FieldExtraction ==
    Decoded
    => /\ Len(raw) = 8
       /\ event.time = <<raw[1], raw[2], raw[3], raw[4]>>
       /\ event.value \in -32768..32767
       /\ (event.value - Word16) % 65536 = 0
       /\ (raw[5] = 255 /\ raw[6] = 255) => event.value = -1
       /\ event.type = raw[7]
       /\ event.number = raw[8]
       /\ event.type \in 0..255
       /\ event.number \in 0..255

C8_Witness ==
    /\ Decoded
    /\ raw[5] = 255
    /\ raw[6] = 255
    /\ event.value = -1
    /\ event.time = <<18, 52, 86, 120>>
    /\ event.type = 130

\* a step in which a buffer was handed to JoystickEvent(...)
DecodeStep ==
    \/ pc = "read" /\ pc' # "read"
    \/ pc = "idle" /\ lastCall'.op = "JoystickEvent"

\* C9: a buffer whose length is not 8 makes the decode end with the
\* invalid-size assertion; no event is built from it, process_events ends
\* and no handler is called for it.
C9_InvalidSize ==
    [][(DecodeStep /\ Len(raw') # 8)
       => /\ err' = "AssertionError: Invalid size of data"
          /\ event' = NoEvent
          /\ calls' = <<>>
          /\ pc' = "idle"]_vars

C9_Witness ==
    /\ lastCall.op = "process_events"
    /\ pc = "idle"
    /\ err = "AssertionError: Invalid size of data"
    /\ Len(raw) = 3
    /\ function_map[ANY] # <<>>
    /\ calls = <<>>
    /\ event = NoEvent

\* C10: a bind call whose category is not one of the five or whose
\* operation is not None, '+' or '-' raises and leaves the table as it was.
C10_InvalidBind ==
    [][(/\ BindStep
        /\ \/ lastCall'.event_type \notin {0, 1, 2, 3, 4}
           \/ lastCall'.operation \notin {"None", "+", "-"})
       => /\ err' # "none"
          /\ function_map' = function_map]_vars

C10_Witness ==
    /\ lastCall.op = "bind"
    /\ lastCall.event_type \in Categories
    /\ lastCall.operation = "x"
    /\ err # "none"
    /\ function_map[lastCall.event_type] # <<>>

\* process_events has returned without an exception
ReturnedNormally ==
    pc = "idle" /\ lastCall.op = "process_events" /\ err = "none"

\* C11: when process_events has returned normally, no record that was read
\* from the descriptor is left undispatched: everything delivered before the
\* last select has gone through read(8), the decoder and the handlers.
C11_CompleteDrain == ReturnedNormally => buffered = 0

\* C12: process_events with timeout 0 on a source without pending data
\* returns at once: no handler is called and nothing is read.
C12_PollWithoutData ==
    [][(/\ pc = "select"
        /\ event = NoEvent
        /\ timeout = "0"
        /\ kernelq = 0
        /\ ~eof)
       => /\ pc' = "idle"
          /\ err' = "none"
          /\ calls' = <<>>
          /\ event' = NoEvent
          /\ <<kernelq', buffered', tail', eof', delivered'>>
               = <<kernelq, buffered, tail, eof, delivered>>]_vars

C12_Witness ==
    /\ ReturnedNormally
    /\ timeout = "0"
    /\ delivered = 0
    /\ ~eof
    /\ function_map[ANY] = <<"h1", "h1">>
    /\ calls = <<>>

\* C13: whatever the timeout, a call that has dispatched a record comes back
\* to its caller, also when the device delivers nothing more.
C13_DrainReturns == (pc = "select" /\ event # NoEvent) ~> (pc = "idle")

\* the calls outside ANY that the classification rules give an event of
\* base type t (BUTTON or AXIS) and value v
RuleCalls(t, v) ==
    IF t = 1
    THEN IF v = 0 THEN Tagged(BUTTON_RELEASE)
         ELSE IF v = 1 THEN Tagged(BUTTON_PRESS)
         ELSE <<>>
    ELSE IF t = 2
    THEN IF v # 0 THEN Tagged(ARROW_PRESS) ELSE Tagged(ARROW_RELEASE)
    ELSE <<>>

\* C14: an event whose type is BUTTON or AXIS with the INIT bit set (0x81,
\* 0x82) has the direction and gets the category calls of the same event
\* with the bit clear.
C14_InitFlagIgnored ==
    (DispatchDone /\ event.type \in {129, 130})
    => /\ event.direction =
            IF event.type - 128 = 2
            THEN TableDirection(event.number, event.value) ELSE "None"
       /\ SpecificCalls = RuleCalls(event.type - 128, event.value)

IsPrefix(s, t) == Len(s) <= Len(t) /\ s = SubSeq(t, 1, Len(s))

\* every call one event gets when no handler touches the table: the ANY
\* list in order, then the list of the category the rules give it
ExpectedCalls == Tagged(ANY) \o RuleCalls(event.type, event.value)

\* C15: for each record the handler calls made so far are an initial part
\* of "ANY list in order, then category list in order", and the loop goes
\* on to read the next record only when all of them have been made.
C15_DispatchOrder ==
    [][/\ event' # NoEvent => IsPrefix(calls', ExpectedCalls')
       /\ (pc # "read" /\ pc' = "read" /\ event # NoEvent)
            => calls = ExpectedCalls]_vars

\* the second record of one call is dispatched, ANY handlers first
C15_Witness ==
    /\ DispatchDone /\ delivered = 2 /\ kernelq = 0 /\ buffered = 0
    /\ function_map[ANY] = <<"h1", "h2">>
    /\ calls = <<<<ANY, "h1">>, <<ANY, "h2">>>>

\* C16: as long as no handler calls bind, no step of a process_events call
\* (its entry, its selects and reads, its handler calls, its return) changes
\* any list of function_map.
C16_TableUntouched ==
    [][(pc # "idle" \/ pc' # "idle") => function_map' = function_map]_vars

\* a call that read and dispatched a record has returned; the table still
\* holds the two handlers bound before it
C16_Witness ==
    /\ ReturnedNormally /\ delivered = 1 /\ kernelq = 0 /\ buffered = 0
    /\ function_map[ANY] = <<"h1">>
    /\ function_map[ARROW_PRESS] = <<"h2">>

\* number of positions of seq that hold x
Count(seq, x) == Cardinality({i \in 1..Len(seq) : seq[i] = x})

\* C18: the calls made for one event are the ANY list followed by the list
\* of at most one specific category (c = ANY below stands for "none"), so
\* their number is len(ANY list) plus that one length, and a handler bound
\* once under ANY and once under the matched category has been called
\* exactly twice.
C18_OneCategory ==
    DispatchDone =>
      \E c \in Categories :
        LET specific == IF c = ANY THEN <<>> ELSE Tagged(c)
        IN /\ calls = Tagged(ANY) \o specific
           /\ Len(calls) = Len(function_map[ANY]) + Len(specific)
           /\ \A h \in Handlers :
                (/\ c # ANY
                 /\ Count(function_map[ANY], h) = 1
                 /\ Count(function_map[c], h) = 1)
                => Count(FuncsOf(calls, ANY) \o FuncsOf(calls, c), h) = 2

\* h1 is bound under ANY and under BUTTON_PRESS and a press was dispatched
C18_Witness ==
    /\ DispatchDone
    /\ function_map[ANY] = <<"h1">> /\ function_map[BUTTON_PRESS] = <<"h1">>
    /\ calls = <<<<ANY, "h1">>, <<BUTTON_PRESS, "h1">>>>

\* C19: an event handed to a BUTTON_PRESS, BUTTON_RELEASE or ARROW_RELEASE
\* handler has direction None; an event handed to an ARROW_PRESS handler has
\* a direction other than None exactly when its number is one of 0..5.
C19_CategoryAndDirection ==
    (event # NoEvent /\ lastCall.op = "process_events") =>
      \A i \in 1..Len(calls) :
        /\ calls[i][1] \in {BUTTON_PRESS, BUTTON_RELEASE, ARROW_RELEASE}
             => event.direction = NoDirection
        /\ calls[i][1] = ARROW_PRESS
             => (event.direction # NoDirection <=> event.number \in 0..5)

\* an ARROW_PRESS handler got an event of axis 7, which has no direction
C19_Witness ==
    /\ DispatchDone
    /\ calls = <<<<ARROW_PRESS, "h1">>>>
    /\ event.number = KM_ML_R2 /\ event.value = -5
    /\ event.direction = NoDirection

\* a handler call of the running loop ends with an exception
RaiseStep == pc \in {"any", "key"} /\ err' = "HandlerError"

\* C17: when a handler raises, process_events ends there with that error:
\* the raising call is the last handler call of the event, the table and
\* the device (what was read, what is pending) stay as they were, and until
\* process_events is called again no handler runs and nothing is read.
C17_HandlerFailure ==
    [][/\ RaiseStep
          => /\ pc' = "idle"
             /\ calls' = Append(calls, <<LoopCategory, iterList[idx]>>)
             /\ function_map' = function_map
             /\ <<kernelq', buffered', tail', eof', delivered'>>
                  = <<kernelq, buffered, tail, eof, delivered>>
       /\ (err = "HandlerError" /\ err' = "HandlerError")
          => /\ pc' = "idle"
             /\ calls' = calls
             /\ function_map' = function_map
             /\ buffered' = buffered /\ kernelq' >= kernelq]_vars

\* h1, first of two ANY handlers, raised on the only record: h2 was not
\* called and the record is gone from the device
C17_Witness ==
    /\ pc = "idle" /\ err = "HandlerError"
    /\ function_map[ANY] = <<"h1", "h2">>
    /\ calls = <<<<ANY, "h1">>>>
    /\ delivered = 1 /\ kernelq = 0 /\ buffered = 0

\* the handler called in this step calls bind on the category being dispatched
InnerBind ==
    /\ pc \in {"any", "key"}
    /\ nbind' = nbind + 1
    /\ lastCall'.event_type = LoopCategory

====
